---------------------------- MODULE Spec2Model ----------------------------
(***************************************************************************)
(* Model of src/src/lib.rs: the fixed-point Torus type, its conversions to  *)
(* and from f64, its wrapping arithmetic, its sign predicate and its two    *)
(* sampling constructors.                                                   *)
(*                                                                          *)
(* Integers are scaled down: TorusRepr is an unsigned integer of W bits     *)
(* (u32 in the source), i32 is the signed integer of the same width, and    *)
(* f64 is a binary floating-point format with P significant bits (53 in the *)
(* source), round-to-nearest-even, and the special values NaN, +inf, -inf.  *)
(* A finite float is kept as the integer n that stands for n / 2^FracBits;  *)
(* 2^-FracBits is the smallest positive value of the format.                *)
(***************************************************************************)
EXTENDS Integers, FiniteSets, Sequences, TLC

\* ------------------------------------------------------------------ bounds
\* Width in bits of TorusRepr and of i32 (32 in the source).
W == 3
\* Significant bits of f64 beyond the width of TorusRepr (53 - 32 in the source).
PrecExtra == 2
\* Float inputs range over the representable values of [-MaxInt, MaxInt].
MaxInt == 2
\* Operations applied in a row by the arithmetic specification.
MaxSteps == 2

\* Significant bits of the float format.
P == W + PrecExtra
\* Fraction bits of the grid the finite floats live on.
FracBits == W + P

RECURSIVE Pow2(_)
Pow2(e) == IF e <= 0 THEN 1 ELSE 2 * Pow2(e - 1)

Abs(i) == IF i < 0 THEN -i ELSE i
Min(i, j) == IF i <= j THEN i ELSE j

\* 2^W: the modulus of TorusRepr.
Modulus == Pow2(W)
\* TorusRepr::MAX
ReprMax == Modulus - 1
\* The values of TorusRepr.
TorusRepr == 0 .. ReprMax
\* The values of i32.
I32Min == -Pow2(W - 1)
I32Max == Pow2(W - 1) - 1
I32 == I32Min .. I32Max

\* Torus::SHIFT
SHIFT == ReprMax

\* Torus { inner }: a Torus value is modelled by its inner field.
Torus == TorusRepr

\* -------------------------------------------------------------------- f64
\* 1.0 in grid units.
ONE == Pow2(FracBits)

Fin(n) == [kind |-> "fin", n |-> n]
NaN == [kind |-> "nan", n |-> 0]
PosInf == [kind |-> "inf", n |-> 1]
NegInf == [kind |-> "inf", n |-> -1]

IsFinite(f) == f.kind = "fin"
IsNaN(f) == f.kind = "nan"

\* The least s >= 0 with num / (den * 2^s) < 2^P: the exponent of the unit in
\* the last place of num / den.
RECURSIVE UlpShift(_, _, _)
UlpShift(num, den, s) ==
    IF num \div (den * Pow2(s)) < Pow2(P) THEN s ELSE UlpShift(num, den, s + 1)

\* num / den (num >= 0, den > 0, in grid units) rounded to nearest, ties to
\* even, at P significant bits.
RoundPos(num, den) ==
    LET s == UlpShift(num, den, 0)
        d == den * Pow2(s)
        m == num \div d
        r == num % d
        up == (2 * r > d) \/ (2 * r = d /\ m % 2 = 1)
    IN  (IF up THEN m + 1 ELSE m) * Pow2(s)

\* num / den (den > 0) rounded to the nearest float.
Round(num, den) == IF num < 0 THEN -RoundPos(-num, den) ELSE RoundPos(num, den)

\* n (grid units) is a value of the float format.
Representable(n) == Round(n, 1) = n

\* self + rhs on f64.
F64Add(a, b) ==
    IF IsNaN(a) \/ IsNaN(b) THEN NaN
    ELSE IF ~IsFinite(a) /\ ~IsFinite(b) THEN (IF a.n = b.n THEN a ELSE NaN)
    ELSE IF ~IsFinite(a) THEN a
    ELSE IF ~IsFinite(b) THEN b
    ELSE Fin(Round(a.n + b.n, 1))

Sgn(i) == IF i < 0 THEN -1 ELSE IF i > 0 THEN 1 ELSE 0

\* self * rhs on f64.
F64Mul(a, b) ==
    IF IsNaN(a) \/ IsNaN(b) THEN NaN
    ELSE IF ~IsFinite(a) \/ ~IsFinite(b)
         THEN (IF Sgn(a.n) * Sgn(b.n) = 0 THEN NaN
               ELSE IF Sgn(a.n) * Sgn(b.n) > 0 THEN PosInf ELSE NegInf)
    ELSE Fin(Round(a.n * b.n, ONE))

\* self / rhs on f64, for a finite positive rhs.
F64Div(a, b) ==
    IF IsNaN(a) THEN NaN
    ELSE IF ~IsFinite(a) THEN a
    ELSE Fin(Round(a.n * ONE, b.n))

\* self % rhs on f64 (fmod: exact, with the sign of self), for rhs = 1.0.
F64Rem1(a) ==
    IF ~IsFinite(a) THEN NaN
    ELSE IF a.n < 0 THEN Fin(-((-a.n) % ONE)) ELSE Fin(a.n % ONE)

\* Mutant of RemEuclid1: the remainder keeps the sign of self, as % does.
RemTruncated1(a) == F64Rem1(a)

\* f64::rem_euclid(self, 1.0):
\*   let r = self % rhs; if r < 0.0 { r + rhs.abs() } else { r }
RemEuclid1(a) ==
    LET r == F64Rem1(a)
    IN  IF IsFinite(r) /\ r.n < 0 THEN F64Add(r, Fin(ONE)) ELSE r

\* u as f64, for u of TorusRepr (exact: W <= P).
ReprAsF64(u) == Fin(u * ONE)

\* f as TorusRepr: truncates toward zero, saturates at the ends of the range,
\* NaN becomes 0.
F64AsRepr(f) ==
    IF IsNaN(f) THEN 0
    ELSE IF ~IsFinite(f) THEN (IF f.n > 0 THEN ReprMax ELSE 0)
    ELSE IF f.n <= 0 THEN 0
    ELSE Min(f.n \div ONE, ReprMax)

\* rhs as TorusRepr, for rhs of i32: the same bits read as unsigned.
I32AsRepr(k) == IF k < 0 THEN k + Modulus ELSE k

\* The float inputs of the model: every value of the format in [-MaxInt, MaxInt].
FloatInputs == { Fin(n) : n \in { i \in (-MaxInt * ONE) .. (MaxInt * ONE) : Representable(i) } }

\* ------------------------------------------------------------------ Torus
\* Torus::new
new(inner) == inner

\* Torus::sign
sign(self) == IF self < (SHIFT \div 2) THEN 1 ELSE -1

\* Mutant of from_f64: the input is scaled without being reduced modulo 1.
from_f64_unreduced(f) == F64AsRepr(F64Mul(f, ReprAsF64(SHIFT)))

\* impl From<f64> for Torus
from_f64(f) == F64AsRepr(F64Mul(RemEuclid1(f), ReprAsF64(SHIFT)))

\* impl From<Torus> for f64
into_f64(t) == F64Div(ReprAsF64(t), ReprAsF64(SHIFT))

\* Mutant of wrapping_add: the sum saturates at TorusRepr::MAX.
saturating_add(a, b) == Min(a + b, ReprMax)

\* u32::wrapping_add, wrapping_sub, wrapping_neg, wrapping_mul at width W.
wrapping_add(a, b) == (a + b) % Modulus
wrapping_sub(a, b) == (a - b) % Modulus
wrapping_neg(a) == (0 - a) % Modulus
wrapping_mul(a, b) == (a * b) % Modulus

\* impl Add for Torus
add(self, other) == wrapping_add(self, other)

\* impl Sub for Torus
sub(self, other) == wrapping_sub(self, other)

\* impl AddAssign for Torus: the new value of *self.
add_assign(self, other) == add(self, other)

\* impl SubAssign for Torus: the new value of *self.
sub_assign(self, other) == sub(self, other)

\* impl Neg for Torus
neg(self) == new(wrapping_neg(self))

\* Mutant of mul_i32: the multiplier's magnitude is used, its sign dropped.
mul_i32_unsigned(self, rhs) == wrapping_mul(self, Abs(rhs))

\* impl Mul<i32> for Torus
mul_i32(self, rhs) == wrapping_mul(self, I32AsRepr(rhs))

\* impl MulAssign<i32> for Torus: the new value of *self.
mul_assign_i32(self, rhs) == mul_i32(self, rhs)

\* impl Mul<Torus> for i32
i32_mul(self, rhs) == mul_i32(rhs, self)

\* impl Mul<f64> for Torus
mul_f64(self, rhs) == F64AsRepr(F64Mul(ReprAsF64(self), rhs))

\* ---------------------------------------------------------------- sampling
\* statrs::distribution::Normal::new(0., std): an error for a NaN or a
\* non-positive standard deviation, a distribution otherwise.
NormalNew(std) ==
    IF IsNaN(std) \/ std.n <= 0 THEN "Err" ELSE "Ok"

\* The samples a Normal of standard deviation std can yield: any finite value
\* for a finite std; mean + std * z overflows for an infinite one.
NormalSamples(std) == IF IsFinite(std) THEN FloatInputs ELSE {PosInf, NegInf, NaN}

\* The samples of rand::distributions::Uniform::new(0., 1.): the values of [0, 1).
UniformSamples == { f \in FloatInputs : 0 <= f.n /\ f.n < ONE }

\* The standard deviations the model calls normal with.
StdInputs ==
    { NaN, PosInf, NegInf, Fin(-ONE), Fin(-1), Fin(0), Fin(1), Fin(ONE \div 4), Fin(ONE) }

\* What a call hands back: a Torus, an f64, an i32, or a panic that unwinds
\* through the caller. The source has no Result-returning operation, so no
\* call hands back an error value.
Returned(t, f, i) == [outcome |-> "ok", torus |-> t, real |-> f, int |-> i]
\* The torus field of a result that holds no Torus.
NoTorus == ReprMax + 1
RetTorus(t) == Returned(t, NaN, 0)
RetReal(f) == Returned(NoTorus, f, 0)
RetInt(i) == Returned(NoTorus, NaN, i)
Panicked == [outcome |-> "panic", torus |-> NoTorus, real |-> NaN, int |-> 0]

\* Mutant of normal: the construction error is ignored and a sample encoded.
normal_unchecked(std, sample) == RetTorus(from_f64(sample))

\* Torus::normal, for the sample the generator yields when the distribution
\* is constructed: the failed construction is unwrapped, which panics.
normal(std, sample) ==
    IF NormalNew(std) = "Err" THEN Panicked ELSE RetTorus(from_f64(sample))

\* Torus::uniform, for the sample the generator yields.
uniform(sample) == RetTorus(from_f64(sample))

\* ------------------------------------------------------------------- state
\* op:    the operation in progress or just returned ("idle": none)
\* self:  its Torus receiver or argument
\* x:     its f64 argument (the standard deviation, for normal)
\* k:     its i32 argument
\* res:   what it handed back
\* sample: the f64 the caller's generator yielded to it (normal, uniform)
\* draws: the samples it drew from the caller's generator
\* regs, ideal, steps: the arithmetic specification's Torus variables, the
\*        same expressions over the unbounded integers, and the number of
\*        operations applied.
\* last:  the arithmetic operation applied last, its operands and the values
\*        it found.
VARIABLES op, self, x, k, res, sample, draws, regs, ideal, steps, last

callVars == <<op, self, x, k, res, sample, draws>>
arithVars == <<regs, ideal, steps, last>>
vars == <<op, self, x, k, res, sample, draws, regs, ideal, steps, last>>

Reg == {"a", "b"}

Applied(name, d, s1, s2, before) ==
    [name |-> name, d |-> d, s1 |-> s1, s2 |-> s2, before |-> before]
NoOp == Applied("none", "a", "a", "a", [r \in Reg |-> 0])

InitCall ==
    /\ op = "idle"
    /\ self = 0
    /\ x = Fin(0)
    /\ k = 0
    /\ res = RetTorus(0)
    /\ sample = Fin(0)
    /\ draws = 0

\* ------------------------------------------- the calls, one at a time (Spec)
Init ==
    /\ InitCall
    /\ regs = [r \in Reg |-> 0]
    /\ ideal = [r \in Reg |-> 0]
    /\ steps = 0
    /\ last = NoOp

F64Inputs == FloatInputs \cup {NaN, PosInf, NegInf}

CallNew ==
    /\ op = "idle"
    /\ \E u \in TorusRepr :
        /\ self' = u
        /\ res' = RetTorus(new(u))
    /\ op' = "new"
    /\ UNCHANGED <<x, k, sample, draws, arithVars>>

CallSign ==
    /\ op = "idle"
    /\ \E t \in Torus :
        /\ self' = t
        /\ res' = RetInt(sign(t))
    /\ op' = "sign"
    /\ UNCHANGED <<x, k, sample, draws, arithVars>>

CallFromF64 ==
    /\ op = "idle"
    /\ \E f \in F64Inputs :
        /\ x' = f
        /\ res' = RetTorus(from_f64(f))
    /\ op' = "from_f64"
    /\ UNCHANGED <<self, k, sample, draws, arithVars>>

CallIntoF64 ==
    /\ op = "idle"
    /\ \E t \in Torus :
        /\ self' = t
        /\ res' = RetReal(into_f64(t))
    /\ op' = "into_f64"
    /\ UNCHANGED <<x, k, sample, draws, arithVars>>

CallMulI32 ==
    /\ op = "idle"
    /\ \E t \in Torus, i \in I32 :
        /\ self' = t
        /\ k' = i
        /\ res' = RetTorus(mul_i32(t, i))
    /\ op' = "mul_i32"
    /\ UNCHANGED <<x, sample, draws, arithVars>>

CallMulAssignI32 ==
    /\ op = "idle"
    /\ \E t \in Torus, i \in I32 :
        /\ self' = t
        /\ k' = i
        /\ res' = RetTorus(mul_assign_i32(t, i))
    /\ op' = "mul_assign_i32"
    /\ UNCHANGED <<x, sample, draws, arithVars>>

CallI32Mul ==
    /\ op = "idle"
    /\ \E t \in Torus, i \in I32 :
        /\ self' = t
        /\ k' = i
        /\ res' = RetTorus(i32_mul(i, t))
    /\ op' = "i32_mul"
    /\ UNCHANGED <<x, sample, draws, arithVars>>

CallMulF64 ==
    /\ op = "idle"
    /\ \E t \in Torus, f \in F64Inputs :
        /\ self' = t
        /\ x' = f
        /\ res' = RetTorus(mul_f64(t, f))
    /\ op' = "mul_f64"
    /\ UNCHANGED <<k, sample, draws, arithVars>>

\* The distribution is constructed, and unwrapped, before anything is drawn:
\* when the construction fails no sample exists, and the call panics.
CallNormal ==
    /\ op = "idle"
    /\ \E std \in StdInputs :
        \/ /\ NormalNew(std) = "Err"
           /\ x' = std
           /\ res' = normal(std, sample)
           /\ UNCHANGED <<sample, draws>>
        \/ /\ NormalNew(std) = "Ok"
           /\ \E drawn \in NormalSamples(std) :
               /\ x' = std
               /\ sample' = drawn
               /\ res' = normal(std, drawn)
           /\ draws' = draws + 1
    /\ op' = "normal"
    /\ UNCHANGED <<self, k, arithVars>>

CallUniform ==
    /\ op = "idle"
    /\ \E drawn \in UniformSamples :
        /\ sample' = drawn
        /\ res' = uniform(drawn)
    /\ draws' = draws + 1
    /\ op' = "uniform"
    /\ UNCHANGED <<self, x, k, arithVars>>

\* The caller takes the result (or the panic unwinds); the next call may start.
Return ==
    /\ op # "idle"
    /\ op' = "idle"
    /\ self' = 0
    /\ x' = Fin(0)
    /\ k' = 0
    /\ res' = RetTorus(0)
    /\ sample' = Fin(0)
    /\ draws' = 0
    /\ UNCHANGED arithVars

Next ==
    \/ CallNew
    \/ CallSign
    \/ CallFromF64
    \/ CallIntoF64
    \/ CallMulI32
    \/ CallMulAssignI32
    \/ CallI32Mul
    \/ CallMulF64
    \/ CallNormal
    \/ CallUniform
    \/ Return

Spec == Init /\ [][Next]_vars

\* ------------------------ sequences of additive operations (SpecArith)
\* The Torus variables start from any raw values.
InitArith ==
    /\ InitCall
    /\ regs \in [Reg -> TorusRepr]
    /\ ideal = regs
    /\ steps = 0
    /\ last = NoOp

\* let d = s1 + s2
OpAdd ==
    /\ steps < MaxSteps
    /\ \E d \in Reg, s1 \in Reg, s2 \in Reg :
        /\ regs' = [regs EXCEPT ![d] = add(regs[s1], regs[s2])]
        /\ ideal' = [ideal EXCEPT ![d] = ideal[s1] + ideal[s2]]
        /\ last' = Applied("add", d, s1, s2, regs)
    /\ steps' = steps + 1
    /\ UNCHANGED callVars

\* let d = s1 - s2
OpSub ==
    /\ steps < MaxSteps
    /\ \E d \in Reg, s1 \in Reg, s2 \in Reg :
        /\ regs' = [regs EXCEPT ![d] = sub(regs[s1], regs[s2])]
        /\ ideal' = [ideal EXCEPT ![d] = ideal[s1] - ideal[s2]]
        /\ last' = Applied("sub", d, s1, s2, regs)
    /\ steps' = steps + 1
    /\ UNCHANGED callVars

\* let d = -s
OpNeg ==
    /\ steps < MaxSteps
    /\ \E d \in Reg, s \in Reg :
        /\ regs' = [regs EXCEPT ![d] = neg(regs[s])]
        /\ ideal' = [ideal EXCEPT ![d] = 0 - ideal[s]]
        /\ last' = Applied("neg", d, s, s, regs)
    /\ steps' = steps + 1
    /\ UNCHANGED callVars

\* d += s
OpAddAssign ==
    /\ steps < MaxSteps
    /\ \E d \in Reg, s \in Reg :
        /\ regs' = [regs EXCEPT ![d] = add_assign(regs[d], regs[s])]
        /\ ideal' = [ideal EXCEPT ![d] = ideal[d] + ideal[s]]
        /\ last' = Applied("add_assign", d, d, s, regs)
    /\ steps' = steps + 1
    /\ UNCHANGED callVars

\* d -= s
OpSubAssign ==
    /\ steps < MaxSteps
    /\ \E d \in Reg, s \in Reg :
        /\ regs' = [regs EXCEPT ![d] = sub_assign(regs[d], regs[s])]
        /\ ideal' = [ideal EXCEPT ![d] = ideal[d] - ideal[s]]
        /\ last' = Applied("sub_assign", d, d, s, regs)
    /\ steps' = steps + 1
    /\ UNCHANGED callVars

NextArith ==
    \/ OpAdd
    \/ OpSub
    \/ OpNeg
    \/ OpAddAssign
    \/ OpSubAssign

SpecArith == InitArith /\ [][NextArith]_vars

\* ================================================================= claims
\* 2^-W, the grid resolution, in grid units of the float format.
GridStep == Pow2(FracBits - W)
\* 2^(W-1): the raw value of one half.
Half == Pow2(W - 1)
\* The integers k of the periodicity law.
Shifts == (-MaxInt) .. MaxInt

\* C1 (as claimed): sign(t) is +1 exactly when t.inner < 2^(W-1) and -1
\* exactly when t.inner >= 2^(W-1); inner = 2^(W-1) - 1 has sign +1.
C1_SignSplitsAtHalf ==
    op = "sign" =>
        /\ (res.int = 1) <=> (self < Half)
        /\ (res.int = -1) <=> (self >= Half)

\* C2 (as claimed): toReal(t) lies in [0, 1) for every Torus value, the one
\* with the maximum inner included; it is never 1.
C2_ToRealBelowOne ==
    op = "into_f64" =>
        /\ IsFinite(res.real)
        /\ 0 <= res.real.n
        /\ res.real.n < ONE

\* A standard deviation that is negative (minus infinity included) or NaN.
NegativeOrNaN(std) == IsNaN(std) \/ std.n < 0
\* A standard deviation that is negative or not finite.
NegativeOrNonFinite(std) == ~IsFinite(std) \/ std.n < 0

\* C3 (as claimed): normal with a negative or non-finite stdDev hands the
\* caller a recoverable error: no Torus, no panic, nothing drawn.
C3_NormalReportsError ==
    (op = "normal" /\ NegativeOrNonFinite(x)) =>
        /\ res.outcome # "ok"
        /\ res.outcome # "panic"
        /\ res.torus = NoTorus
        /\ draws = 0

\* C3 (amended): normal with a negative or NaN stdDev aborts with a panic: it
\* returns no Torus and no error value, and draws nothing from the generator.
C3_NormalPanics ==
    (op = "normal" /\ NegativeOrNaN(x)) =>
        /\ res.outcome = "panic"
        /\ res.torus = NoTorus
        /\ draws = 0

C3_Witness ==
    /\ op = "normal"
    /\ x = Fin(-ONE)
    /\ res = Panicked
    /\ draws = 0

\* C4 (as claimed): fromReal of NaN or an infinity reports an error and
\* returns no Torus; fromReal of a finite input returns a Torus.
C4_FromRealRejectsNonFinite ==
    op = "from_f64" =>
        IF IsFinite(x)
        THEN res.outcome = "ok" /\ res.torus \in TorusRepr
        ELSE res.outcome # "ok" /\ res.torus = NoTorus

\* C4 (amended): fromReal never fails: it returns a Torus for every input,
\* and for NaN and the infinities that Torus is the zero Torus.
C4_FromRealTotal ==
    op = "from_f64" =>
        /\ res.outcome = "ok"
        /\ res.torus \in TorusRepr
        /\ ~IsFinite(x) => res.torus = 0

C4_Witness ==
    /\ op = "from_f64"
    /\ x = PosInf
    /\ res.outcome = "ok"
    /\ res.torus = 0

\* C5 (as claimed): fromReal(x) and fromReal(x + k) have the same inner for
\* every x and every integer k.
C5_Periodic ==
    (op = "from_f64" /\ IsFinite(x)) =>
        \A j \in Shifts : from_f64(F64Add(x, Fin(j * ONE))) = res.torus

\* C5 (amended): fromReal(x) and fromReal(x + k) have the same inner for
\* every x and every integer k whose sum x + k is a value of f64, that is,
\* is computed without rounding.
C5_PeriodicWhenSumExact ==
    (op = "from_f64" /\ IsFinite(x)) =>
        \A j \in Shifts :
            F64Add(x, Fin(j * ONE)) = Fin(x.n + j * ONE) =>
                from_f64(F64Add(x, Fin(j * ONE))) = res.torus

\* -0.5 encodes as 0.5, 1.5 and -1.5 do.
C5_Witness ==
    /\ op = "from_f64"
    /\ x = Fin(-(ONE \div 2))
    /\ res.torus = from_f64(Fin(ONE \div 2))
    /\ res.torus = from_f64(Fin(ONE + ONE \div 2))
    /\ res.torus = from_f64(Fin(-(ONE + ONE \div 2)))
    /\ res.torus > 0

\* C6 (as claimed): toReal(fromReal(x)) is within 2^-W of x mod 1, and when
\* x mod 1 is the grid point u / 2^W, fromReal(x).inner = u and the error is 0.
C6_RoundTrip ==
    (op = "from_f64" /\ IsFinite(x)) =>
        LET frac == x.n % ONE
            back == into_f64(res.torus)
        IN  /\ IsFinite(back)
            /\ Abs(back.n - frac) <= GridStep
            /\ frac % GridStep = 0 =>
                /\ res.torus = frac \div GridStep
                /\ back.n = frac

\* a added to fromRaw(0) n times.
RECURSIVE RepeatedAdd(_, _)
RepeatedAdd(a, n) == IF n = 0 THEN new(0) ELSE add(RepeatedAdd(a, n - 1), a)

\* C7: mulScalarInt(a, k).inner = (a.inner * k) mod 2^W for every i32 k, which
\* is a added k times to zero (negated, for |k| times, when k < 0); i32 * Torus
\* and Torus * i32 agree.
C7_MulScalarInt ==
    (op = "mul_i32" \/ op = "i32_mul") =>
        /\ res.torus = (self * k) % Modulus
        /\ k >= 0 => res.torus = RepeatedAdd(self, k)
        /\ k < 0 => res.torus = neg(RepeatedAdd(self, -k))
        /\ res.torus = mul_i32(self, k)
        /\ res.torus = i32_mul(k, self)

\* -1 raw unit times i32::MIN.
C7_Witness ==
    /\ op = "mul_i32"
    /\ self = ReprMax
    /\ k = I32Min
    /\ res.torus = Half

\* floor of a finite f64.
Floor(f) == f.n \div ONE

\* C8 (as claimed): mulScalarReal(a, k).inner = floor(a.inner * k) mod 2^W for
\* every finite k: too large a product wraps, a negative one wraps, and for
\* an integer k the result is that of mulScalarInt.
C8_MulScalarRealWraps ==
    (op = "mul_f64" /\ IsFinite(x)) =>
        /\ res.torus = Floor(F64Mul(ReprAsF64(self), x)) % Modulus
        /\ (x.n % ONE = 0 /\ Floor(x) \in I32) => res.torus = mul_i32(self, Floor(x))

\* C9: after any sequence of add, sub, neg, += and -=, every Torus holds the
\* same expression over the integers reduced modulo 2^W, within 0 .. 2^W - 1;
\* add is commutative and associative with identity fromRaw(0), t + (-t) is
\* raw 0, a - b is a + (-b), and a += b, a -= b leave a + b, a - b in a.
C9_WrappingArithmetic ==
    /\ \A r \in Reg :
        /\ regs[r] \in TorusRepr
        /\ regs[r] = ideal[r] % Modulus
    /\ \A r1 \in Reg, r2 \in Reg :
        LET a == regs[r1]
            b == regs[r2]
        IN  /\ add(a, b) = add(b, a)
            /\ \A c \in TorusRepr : add(add(a, b), c) = add(a, add(b, c))
            /\ add(a, new(0)) = a
            /\ add(new(0), a) = a
            /\ add(a, neg(a)) = 0
            /\ sub(a, b) = add(a, neg(b))
            /\ add(a, b) = (a + b) % Modulus
            /\ sub(a, b) = (a - b) % Modulus
    /\ last.name = "add_assign" =>
        regs[last.d] = add(last.before[last.d], last.before[last.s2])
    /\ last.name = "sub_assign" =>
        regs[last.d] = sub(last.before[last.d], last.before[last.s2])
    /\ last.name = "add" => regs[last.d] = (last.before[last.s1] + last.before[last.s2]) % Modulus
    /\ last.name = "sub" => regs[last.d] = (last.before[last.s1] - last.before[last.s2]) % Modulus
    /\ last.name = "neg" => regs[last.d] = (Modulus - last.before[last.s1]) % Modulus

\* An overflow and an underflow of the integer expressions, after a -=.
C9_Witness ==
    /\ steps = MaxSteps
    /\ last.name = "sub_assign"
    /\ ideal["a"] < 0
    /\ ideal["b"] >= Modulus

\* C10 (as claimed): the Torus uniform returns, and the Torus normal returns
\* for any finite sample, decodes to a real r with 0 <= r < 1.
C10_SamplesDecodeBelowOne ==
    ((op = "uniform" \/ op = "normal") /\ res.outcome = "ok" /\ IsFinite(sample)) =>
        LET r == into_f64(res.torus)
        IN  /\ IsFinite(r)
            /\ 0 <= r.n
            /\ r.n < ONE

=============================================================================
